---- MODULE Spec2Model ----
(***************************************************************************)
(* A model of the PiKVM client library (lib/index.js): the JavaScript      *)
(* class PiKVMClient and the TypeScript class of the same name, their      *)
(* constructors, the generic request operation with its response and error *)
(* handlers, and the typed wrappers.                                       *)
(*                                                                         *)
(* JavaScript values are tagged records.  A JavaScript string is the       *)
(* sequence of its code points, so that the conversions the code performs  *)
(* on text (base64, UTF-8 decoding, JSON, URL encoding) are computed and   *)
(* not assumed.  Text the code puts on the wire (path, header values,      *)
(* payload) is rendered as a TLA+ string, built character by character.    *)
(***************************************************************************)
EXTENDS Integers, Sequences, FiniteSets, TLC

VARIABLES
    impl,       \* which class was instantiated: "none", "js" or "ts"
    input,      \* the configuration record handed to the constructor
    client,     \* NoClient, or [config |-> ..., authHeader |-> ...]
    thrown,     \* the message of the error the constructor threw, "" if none
    calls,      \* one record per invocation of request(): what was sent
    resp,       \* one record per invocation: the response as handled so far
    uploads     \* one record per invocation of writeMSDImage(): its outcome

vars == <<impl, input, client, thrown, calls, resp, uploads>>

-----------------------------------------------------------------------------
(* Bounds of the model.                                                    *)

\* Invocations of request() on one client when only issuing is observed.
MaxIssued == 1
\* Invocations of request() on one client when the responses are observed.
MaxCalls == 1
\* 'error' events the transport may report on one request.
MaxErrors == 1
\* Invocations of the reading methods on one client.
MaxReads == 1
\* Calls made on one client where their interleaving is observed.
MaxInFlight == 2
\* Invocations of getInfo on one client where a read is repeated.
MaxRepeats == 2
\* Invocations on one client where every wrapper and its outcome is observed.
MaxEach == 1

-----------------------------------------------------------------------------
(* JavaScript values.                                                      *)

Undefined == [type |-> "undefined"]
Null == [type |-> "null"]
Bool(b) == [type |-> "boolean", val |-> b]
Num(n) == [type |-> "number", val |-> n]
Str(cps) == [type |-> "string", val |-> cps]
Arr(elems) == [type |-> "array", val |-> elems]
\* An object literal: its properties in insertion order, <<key, value>> each.
Obj(props) == [type |-> "object", val |-> props]

\* ToBoolean, as applied by !x, x || y, x ? a : b and if (x).
ToBoolean(v) ==
    CASE v.type = "undefined" -> FALSE
      [] v.type = "null" -> FALSE
      [] v.type = "boolean" -> v.val
      [] v.type = "number" -> v.val # 0
      [] v.type = "string" -> Len(v.val) > 0
      [] OTHER -> TRUE

\* a || b
JsOr(a, b) == IF ToBoolean(a) THEN a ELSE b

\* v !== false
NotFalse(v) == ~(v.type = "boolean" /\ v.val = FALSE)

\* A parameter with a default value: the default applies to undefined only.
DefaultParam(v, d) == IF v.type = "undefined" THEN d ELSE v

-----------------------------------------------------------------------------
(* Text.                                                                   *)

\* The printable ASCII characters, code points 32 to 126, without the grave
\* accent (96), which a TLA+ string cannot hold and no text of the model uses.
Ascii ==
    <<" ", "!", "\"", "#", "$", "%", "&", "'", "(", ")", "*", "+", ",", "-",
      ".", "/", "0", "1", "2", "3", "4", "5", "6", "7", "8", "9", ":", ";",
      "<", "=", ">", "?", "@", "A", "B", "C", "D", "E", "F", "G", "H", "I",
      "J", "K", "L", "M", "N", "O", "P", "Q", "R", "S", "T", "U", "V", "W",
      "X", "Y", "Z", "[", "\\", "]", "^", "_", "a", "b", "c", "d", "e",
      "f", "g", "h", "i", "j", "k", "l", "m", "n", "o", "p", "q", "r", "s",
      "t", "u", "v", "w", "x", "y", "z", "{", "|", "}", "~">>

Chr(cp) == IF cp < 96 THEN Ascii[cp - 31] ELSE Ascii[cp - 32]

RECURSIVE Text(_)
\* A string of printable ASCII code points as wire text.
Text(cps) == IF cps = <<>> THEN "" ELSE Chr(Head(cps)) \o Text(Tail(cps))

RECURSIVE Utf8Encode(_)
\* Buffer.from(string): the UTF-8 bytes of a string (code points below 0x800).
Utf8Encode(cps) ==
    IF cps = <<>> THEN <<>>
    ELSE LET c == Head(cps)
         IN  (IF c < 128 THEN <<c>>
              ELSE <<192 + (c \div 64), 128 + (c % 64)>>) \o Utf8Encode(Tail(cps))

Base64Alphabet ==
    <<"A", "B", "C", "D", "E", "F", "G", "H", "I", "J", "K", "L", "M", "N",
      "O", "P", "Q", "R", "S", "T", "U", "V", "W", "X", "Y", "Z", "a", "b",
      "c", "d", "e", "f", "g", "h", "i", "j", "k", "l", "m", "n", "o", "p",
      "q", "r", "s", "t", "u", "v", "w", "x", "y", "z", "0", "1", "2", "3",
      "4", "5", "6", "7", "8", "9", "+", "/">>

B64(i) == Base64Alphabet[i + 1]

RECURSIVE Base64(_)
\* buffer.toString(base64): three bytes become four characters, the last
\* group is padded with '='.
Base64(bytes) ==
    CASE Len(bytes) = 0 -> ""
      [] Len(bytes) = 1 ->
            B64(bytes[1] \div 4) \o B64((bytes[1] % 4) * 16) \o "=="
      [] Len(bytes) = 2 ->
            B64(bytes[1] \div 4)
            \o B64((bytes[1] % 4) * 16 + bytes[2] \div 16)
            \o B64((bytes[2] % 16) * 4) \o "="
      [] OTHER ->
            B64(bytes[1] \div 4)
            \o B64((bytes[1] % 4) * 16 + bytes[2] \div 16)
            \o B64((bytes[2] % 16) * 4 + bytes[3] \div 64)
            \o B64(bytes[3] % 64)
            \o Base64(SubSeq(bytes, 4, Len(bytes)))


Digit(d) == Chr(48 + d)

RECURSIVE Decimal(_)
\* An integer in decimal, as a template string or JSON.stringify writes it.
Decimal(n) ==
    IF n < 0 THEN "-" \o Decimal(0 - n)
    ELSE IF n < 10 THEN Digit(n)
    ELSE Decimal(n \div 10) \o Digit(n % 10)

\* ${v} in a template string, for the values the model passes.
TemplateText(v) ==
    CASE v.type = "undefined" -> "undefined"
      [] v.type = "null" -> "null"
      [] v.type = "boolean" -> IF v.val THEN "true" ELSE "false"
      [] v.type = "number" -> Decimal(v.val)
      [] v.type = "string" -> Text(v.val)

\* ${v} as code points, where the result is encoded further.
TemplateCps(v) ==
    CASE v.type = "undefined" -> <<117, 110, 100, 101, 102, 105, 110, 101, 100>>
      [] v.type = "null" -> <<110, 117, 108, 108>>
      [] v.type = "string" -> v.val

-----------------------------------------------------------------------------
(* JSON.stringify.                                                         *)

RECURSIVE QuoteText(_)
\* The characters of a JSON string literal: the quote and the backslash are
\* escaped (control characters are outside the model's alphabet).
QuoteText(cps) ==
    IF cps = <<>> THEN ""
    ELSE (IF Head(cps) \in {34, 92} THEN "\\" ELSE "")
         \o Chr(Head(cps)) \o QuoteText(Tail(cps))

RECURSIVE JSONStringify(_), StringifyElems(_), StringifyProps(_, _)
\* JSON.stringify(v) for a value other than undefined.
JSONStringify(v) ==
    CASE v.type = "null" -> "null"
      [] v.type = "boolean" -> IF v.val THEN "true" ELSE "false"
      [] v.type = "number" -> Decimal(v.val)
      [] v.type = "string" -> "\"" \o QuoteText(v.val) \o "\""
      [] v.type = "array" -> "[" \o StringifyElems(v.val) \o "]"
      [] v.type = "object" -> "{" \o StringifyProps(v.val, TRUE) \o "}"

\* The elements of an array; an undefined element is written as null.
StringifyElems(elems) ==
    IF elems = <<>> THEN ""
    ELSE (IF Head(elems).type = "undefined" THEN "null"
          ELSE JSONStringify(Head(elems)))
         \o (IF Len(elems) > 1 THEN "," ELSE "")
         \o StringifyElems(Tail(elems))

\* The properties of an object; a property whose value is undefined is left
\* out.  first: no property has been written yet.
StringifyProps(props, first) ==
    IF props = <<>> THEN ""
    ELSE IF Head(props)[2].type = "undefined"
         THEN StringifyProps(Tail(props), first)
    ELSE (IF first THEN "" ELSE ",")
         \o "\"" \o Head(props)[1] \o "\":" \o JSONStringify(Head(props)[2])
         \o StringifyProps(Tail(props), FALSE)

-----------------------------------------------------------------------------
(* encodeURIComponent.                                                     *)

\* 0-9 A-F
HexDigits == <<48, 49, 50, 51, 52, 53, 54, 55, 56, 57, 65, 66, 67, 68, 69, 70>>

\* %XX
PercentByte(b) == <<37, HexDigits[(b \div 16) + 1], HexDigits[(b % 16) + 1]>>

\* A-Z a-z 0-9 - _ . ! ~ * ' ( )
UriUnreserved ==
    (65..90) \cup (97..122) \cup (48..57) \cup {45, 95, 46, 33, 126, 42, 39, 40, 41}

RECURSIVE PercentBytes(_)
PercentBytes(bytes) ==
    IF bytes = <<>> THEN <<>>
    ELSE PercentByte(Head(bytes)) \o PercentBytes(Tail(bytes))

RECURSIVE EncodeURI(_)
\* encodeURI in the place of encodeURIComponent: the reserved characters
\* ; / ? : @ & = + $ , # are kept as they are.
EncodeURI(cps) ==
    IF cps = <<>> THEN <<>>
    ELSE (IF Head(cps) \in UriUnreserved
                            \cup {59, 47, 63, 58, 64, 38, 61, 43, 36, 44, 35}
          THEN <<Head(cps)>>
          ELSE PercentBytes(Utf8Encode(<<Head(cps)>>)))
         \o EncodeURI(Tail(cps))

RECURSIVE EncodeURIComponent(_)
\* Every character but the unreserved ones becomes the %XX of its UTF-8
\* bytes; the result is a string of ASCII characters.
EncodeURIComponent(cps) ==
    IF cps = <<>> THEN <<>>
    ELSE (IF Head(cps) \in UriUnreserved THEN <<Head(cps)>>
          ELSE PercentBytes(Utf8Encode(<<Head(cps)>>)))
         \o EncodeURIComponent(Tail(cps))

-----------------------------------------------------------------------------
(* Construction.                                                           *)

NoClient == [type |-> "none"]

ATXButton == [POWER |-> Str(<<112, 111, 119, 101, 114>>),
              POWER_LONG |-> Str(<<112, 111, 119, 101, 114, 95, 108, 111, 110, 103>>),
              RESET |-> Str(<<114, 101, 115, 101, 116>>)]

DefaultSecurePort == 443
DefaultPlainPort == 80

\* "", "kvm"
HostNames == {Str(<<>>), Str(<<107, 118, 109>>)}
\* "", "admin"
UserNames == {Str(<<>>), Str(<<97, 100, 109, 105, 110>>)}
\* "", "pw1"
Passwords == {Str(<<>>), Str(<<112, 119, 49>>)}
Ports == {Undefined, Num(0), Num(80)}
Flags == {Undefined, Bool(TRUE), Bool(FALSE)}

\* What a JavaScript caller may pass: any property may be absent.
JsConfigs ==
    [host : HostNames \cup {Undefined}, username : UserNames \cup {Undefined},
     password : Passwords \cup {Undefined}, port : Ports, secure : Flags,
     rejectUnauthorized : Flags]

\* What the interface PiKVMConfig admits: host, username and password are
\* strings, the other properties are optional.
PiKVMConfig ==
    [host : HostNames, username : UserNames, password : Passwords,
     port : Ports, secure : Flags, rejectUnauthorized : Flags]

\* The configurations used where the responses are observed.
WireConfigs ==
    {cfg \in PiKVMConfig :
        /\ ToBoolean(cfg.host) /\ ToBoolean(cfg.username) /\ ToBoolean(cfg.password)
        /\ cfg.port = Undefined /\ cfg.secure = Undefined
        /\ cfg.rejectUnauthorized = Undefined}

\* The test of the JavaScript constructor.
MissingRequired(config) ==
    ~ToBoolean(config.host) \/ ~ToBoolean(config.username) \/ ~ToBoolean(config.password)

RequiredMessage == "host, username, and password are required"

EffectiveConfig(config) ==
    [host |-> config.host,
     port |-> JsOr(config.port,
                   IF NotFalse(config.secure) THEN Num(DefaultSecurePort)
                   ELSE Num(DefaultPlainPort)),
     secure |-> Bool(NotFalse(config.secure)),
     username |-> config.username,
     password |-> config.password,
     rejectUnauthorized |-> JsOr(config.rejectUnauthorized, Bool(FALSE))]

\* Buffer.from(username + ":" + password).toString(base64), after "Basic ".
AuthHeader(cfg) ==
    "Basic " \o Base64(Utf8Encode(TemplateCps(cfg.username) \o <<58>>
                                   \o TemplateCps(cfg.password)))

NewClient(config) ==
    [type |-> "client",
     config |-> EffectiveConfig(config),
     authHeader |-> AuthHeader(EffectiveConfig(config))]

\* new PiKVMClient(config), the JavaScript class.
ConstructJs(config) ==
    /\ impl = "none"
    /\ impl' = "js"
    /\ input' = config
    /\ IF MissingRequired(config)
       THEN thrown' = RequiredMessage /\ client' = NoClient
       ELSE thrown' = "" /\ client' = NewClient(config)
    /\ UNCHANGED <<calls, resp, uploads>>

\* new PiKVMClient(config), the TypeScript class.
ConstructTs(config) ==
    /\ impl = "none"
    /\ impl' = "ts"
    /\ input' = config
    /\ thrown' = ""
    /\ client' = NewClient(config)
    /\ UNCHANGED <<calls, resp, uploads>>

Init ==
    /\ impl = "none"
    /\ input = Undefined
    /\ client = NoClient
    /\ thrown = ""
    /\ calls = <<>>
    /\ resp = <<>>
    /\ uploads = <<>>

-----------------------------------------------------------------------------
(* request(method, path, body): what it sends.                             *)

\* The promise of a call and the response handler's state before any event.
NewResponse ==
    [phase |-> "sent",          \* sent, response, ended, aborted
     statusCode |-> 0,
     body |-> <<>>,             \* the bytes of the body the remote sends
     pending |-> <<>>,          \* the bytes not yet delivered
     received |-> <<>>,         \* the bytes delivered, in arrival order
     data |-> <<>>,             \* the handler's variable data
     errors |-> <<>>,           \* the errors the transport reported
     state |-> "pending",       \* pending, fulfilled, rejected
     value |-> Undefined,
     error |-> Undefined]

\* The options of a request whose Authorization header is sent with POST only.
RequestOptionsAuthOnPost(method, path) ==
    [hostname |-> client.config.host,
     port |-> client.config.port,
     path |-> path,
     method |-> method,
     headers |-> [Authorization |-> IF method = "POST" THEN client.authHeader ELSE "",
                  ContentType |-> "application/json"],
     rejectUnauthorized |-> client.config.rejectUnauthorized]

RequestOptions(method, path) ==
    [hostname |-> client.config.host,
     port |-> client.config.port,
     path |-> path,
     method |-> method,
     headers |-> [Authorization |-> client.authHeader,
                  ContentType |-> "application/json"],
     rejectUnauthorized |-> client.config.rejectUnauthorized]

\* The transport chosen by the port instead of the secure flag.
TransportByPort ==
    IF client.config.port = Num(DefaultSecurePort) THEN "https" ELSE "http"

\* this.config.secure ? https : http
Transport == IF ToBoolean(client.config.secure) THEN "https" ELSE "http"

\* if (body) req.write(JSON.stringify(body)): the payloads written.
Written(body) == IF ToBoolean(body) THEN <<JSONStringify(body)>> ELSE <<>>

\* A request() that computes the Authorization header anew, from the user
\* name alone, and stores it.
RequestRecomputingAuth(limit, op, args, method, path, body) ==
    /\ client # NoClient
    /\ Len(calls) + Len(uploads) < limit
    /\ client' = [client EXCEPT !.authHeader =
                      "Basic " \o Base64(Utf8Encode(
                          TemplateCps(client.config.username) \o <<58>>))]
    /\ calls' = Append(calls,
                       [op |-> op,
                        args |-> args,
                        method |-> method,
                        path |-> path,
                        body |-> body,
                        options |->
                            [RequestOptions(method, path) EXCEPT
                                !.headers.Authorization = client'.authHeader],
                        transport |-> Transport,
                        written |-> Written(body),
                        ended |-> TRUE,
                        connections |-> 1])
    /\ resp' = Append(resp, NewResponse)
    /\ UNCHANGED <<impl, input, thrown, uploads>>

\* A request() that writes the payload of the call before it, where there
\* is one, instead of its own.
RequestReusingLast(limit, op, args, method, path, body) ==
    /\ client # NoClient
    /\ Len(calls) + Len(uploads) < limit
    /\ calls' = Append(calls,
                       [op |-> op,
                        args |-> args,
                        method |-> method,
                        path |-> path,
                        body |-> body,
                        options |-> RequestOptions(method, path),
                        transport |-> Transport,
                        written |-> IF calls = <<>> THEN Written(body)
                                    ELSE calls[Len(calls)].written,
                        ended |-> TRUE,
                        connections |-> 1])
    /\ resp' = Append(resp, NewResponse)
    /\ UNCHANGED <<impl, input, client, thrown, uploads>>

\* One invocation of request(), made through the method op with the
\* arguments args, while fewer than limit methods were invoked.
Request(limit, op, args, method, path, body) ==
    /\ client # NoClient
    /\ Len(calls) + Len(uploads) < limit
    /\ calls' = Append(calls,
                       [op |-> op,
                        args |-> args,
                        method |-> method,
                        path |-> path,
                        body |-> body,
                        options |-> RequestOptions(method, path),
                        transport |-> Transport,
                        written |-> Written(body),
                        ended |-> TRUE,
                        connections |-> 1])
    /\ resp' = Append(resp, NewResponse)
    /\ UNCHANGED <<impl, input, client, thrown, uploads>>

-----------------------------------------------------------------------------
(* The typed wrappers.  Both classes issue the same requests.              *)

getInfo(limit) == Request(limit, "getInfo", <<>>, "GET", "/api/info", Undefined)

getATXInfo(limit) ==
    Request(limit, "getATXInfo", <<>>, "GET", "/api/atx", Undefined)

\* clickATXButton without the default of wait: an omitted wait reads as false.
ClickATXWaitFalsy(limit, op, args, button, wait) ==
    Request(limit, op, args, "POST",
            "/api/atx/click?button=" \o TemplateText(button) \o "&wait="
                \o (IF ToBoolean(wait) THEN "1" ELSE "0"),
            Obj(<<>>))

\* clickATXButton(button, wait = true), invoked as the method op with the
\* arguments args.
ClickATX(limit, op, args, button, wait) ==
    Request(limit, op, args, "POST",
            "/api/atx/click?button=" \o TemplateText(button) \o "&wait="
                \o (IF ToBoolean(DefaultParam(wait, Bool(TRUE))) THEN "1" ELSE "0"),
            Obj(<<>>))

clickATXButton(limit, button, wait) ==
    ClickATX(limit, "clickATXButton", <<button, wait>>, button, wait)

powerOn(limit) == ClickATX(limit, "powerOn", <<>>, ATXButton.POWER, Undefined)

\* powerOff holding the button, as forcePowerOff does.
powerOffLong(limit) ==
    ClickATX(limit, "powerOff", <<>>, ATXButton.POWER_LONG, Undefined)

powerOff(limit) == ClickATX(limit, "powerOff", <<>>, ATXButton.POWER, Undefined)

forcePowerOff(limit) ==
    ClickATX(limit, "forcePowerOff", <<>>, ATXButton.POWER_LONG, Undefined)

reset(limit) == ClickATX(limit, "reset", <<>>, ATXButton.RESET, Undefined)

getMSDInfo(limit) ==
    Request(limit, "getMSDInfo", <<>>, "GET", "/api/msd", Undefined)

\* setMSDImage without the default of cdrom.
setMSDImageNoDefault(limit, image, cdrom) ==
    Request(limit, "setMSDImage", <<image, cdrom>>, "POST", "/api/msd/set_params",
            Obj(<< <<"image", image>>, <<"cdrom", cdrom>> >>))

setMSDImage(limit, image, cdrom) ==
    Request(limit, "setMSDImage", <<image, cdrom>>, "POST", "/api/msd/set_params",
            Obj(<< <<"image", image>>,
                   <<"cdrom", DefaultParam(cdrom, Bool(FALSE))>> >>))

connectMSD(limit) ==
    Request(limit, "connectMSD", <<>>, "POST", "/api/msd/set_connected",
            Obj(<< <<"connected", Bool(TRUE)>> >>))

disconnectMSD(limit) ==
    Request(limit, "disconnectMSD", <<>>, "POST", "/api/msd/set_connected",
            Obj(<< <<"connected", Bool(FALSE)>> >>))

removeMSDImage(limit, image) ==
    Request(limit, "removeMSDImage", <<image>>, "POST",
            "/api/msd/remove?image="
                \o Text(EncodeURIComponent(TemplateCps(image))),
            Obj(<<>>))

sendKeys(limit, keys) ==
    Request(limit, "sendKeys", <<keys>>, "POST", "/api/hid/events/send_key",
            Obj(<< <<"keys", keys>> >>))

\* sendMouseMove sending only the coordinates that are not zero.
sendMouseMoveTruthy(limit, x, y) ==
    Request(limit, "sendMouseMove", <<x, y>>, "POST",
            "/api/hid/events/send_mouse_move",
            Obj(<< <<"x", JsOr(x, Undefined)>>, <<"y", JsOr(y, Undefined)>> >>))

sendMouseMove(limit, x, y) ==
    Request(limit, "sendMouseMove", <<x, y>>, "POST",
            "/api/hid/events/send_mouse_move",
            Obj(<< <<"x", x>>, <<"y", y>> >>))

sendMouseButton(limit, button, state) ==
    Request(limit, "sendMouseButton", <<button, state>>, "POST",
            "/api/hid/events/send_mouse_button",
            Obj(<< <<"button", button>>, <<"state", state>> >>))

sendMouseWheel(limit, delta) ==
    Request(limit, "sendMouseWheel", <<delta>>, "POST",
            "/api/hid/events/send_mouse_wheel",
            Obj(<< <<"delta", delta>> >>))

getGPIO(limit) == Request(limit, "getGPIO", <<>>, "GET", "/api/gpio", Undefined)

setGPIO(limit, channel, state) ==
    Request(limit, "setGPIO", <<channel, state>>, "POST", "/api/gpio/switch",
            Obj(<< <<"channel", channel>>, <<"state", state>> >>))

\* pulseGPIO without the default of delay.
pulseGPIONoDefault(limit, channel, delay) ==
    Request(limit, "pulseGPIO", <<channel, delay>>, "POST", "/api/gpio/pulse",
            Obj(<< <<"channel", channel>>, <<"delay", delay>> >>))

pulseGPIO(limit, channel, delay) ==
    Request(limit, "pulseGPIO", <<channel, delay>>, "POST", "/api/gpio/pulse",
            Obj(<< <<"channel", channel>>,
                   <<"delay", DefaultParam(delay, Num(0))>> >>))

\* request(method, path, body) invoked directly; method and path are
\* recorded in the call's fields of these names.
request(limit, method, path, body) ==
    Request(limit, "request", <<body>>, method, path, body)

\* writeMSDImage(image, data).  The TypeScript class declares it async and
\* throws in its body, so the promise it returns is rejected.  The JavaScript
\* class has no such method: invoking it throws a TypeError at the call.
\* Neither invokes request().
writeMSDImage(limit, image, data) ==
    /\ client # NoClient
    /\ Len(calls) + Len(uploads) < limit
    /\ uploads' = Append(uploads,
           [image |-> image,
            data |-> data,
            requests |-> 0,
            outcome |-> IF impl = "ts" THEN "rejected" ELSE "thrown",
            error |-> IF impl = "ts"
                      THEN [name |-> "Error",
                            message |-> "MSD image upload not implemented - "
                                \o "use HTTP multipart/form-data directly"]
                      ELSE [name |-> "TypeError",
                            message |-> "client.writeMSDImage is not a function"]])
    /\ UNCHANGED <<impl, input, client, thrown, calls, resp>>

-----------------------------------------------------------------------------
(* The arguments the model passes.                                         *)

Buttons == {ATXButton.POWER, ATXButton.POWER_LONG, ATXButton.RESET}
\* null, "a.iso", "a b&c.iso"
Images ==
    {Null, Str(<<97, 46, 105, 115, 111>>),
     Str(<<97, 32, 98, 38, 99, 46, 105, 115, 111>>)}
\* The names removeMSDImage is given: "a.iso", "a b&c.iso", "=?#/%" and
\* "\u00e9+" (a character outside ASCII, and a plus sign).
Names ==
    (Images \ {Null})
        \cup {Str(<<61, 63, 35, 47, 37>>), Str(<<233, 43>>)}
\* The contents of a Buffer handed to writeMSDImage.
Datas == {<<>>, <<1>>}
\* [], ["a"], ["b", "a"]
KeyLists ==
    {Arr(<<>>), Arr(<<Str(<<97>>)>>), Arr(<<Str(<<98>>), Str(<<97>>)>>)}
Coordinates == {Num(0), Num(0 - 5)}
\* "left"
MouseButtons == {Str(<<108, 101, 102, 116>>)}
\* "c1"
Channels == {Str(<<99, 49>>)}
Delays == {Undefined, Num(0), Num(2)}
Methods == {"GET", "POST"}
Paths == {"/api/info"}
\* A body argument: omitted, or a JSON-serializable value.
BodyArgs ==
    {Undefined, Null, Bool(FALSE), Bool(TRUE), Num(0), Num(1), Str(<<>>),
     Str(<<97>>), Arr(<<>>), Arr(<<Num(1)>>), Obj(<<>>),
     Obj(<< <<"a", Num(1)>> >>)}

\* Any method of the client, invoked with any of the arguments above.
Invoke(limit) ==
    \/ getInfo(limit)
    \/ getATXInfo(limit)
    \/ \E b \in Buttons, w \in Flags : clickATXButton(limit, b, w)
    \/ powerOn(limit)
    \/ powerOff(limit)
    \/ forcePowerOff(limit)
    \/ reset(limit)
    \/ getMSDInfo(limit)
    \/ \E i \in Images, f \in Flags : setMSDImage(limit, i, f)
    \/ connectMSD(limit)
    \/ disconnectMSD(limit)
    \/ \E i \in Images \ {Null}, d \in Datas : writeMSDImage(limit, i, d)
    \/ \E i \in Names : removeMSDImage(limit, i)
    \/ \E k \in KeyLists : sendKeys(limit, k)
    \/ \E x \in Coordinates, y \in Coordinates : sendMouseMove(limit, x, y)
    \/ \E b \in MouseButtons, f \in {Bool(TRUE), Bool(FALSE)} :
          sendMouseButton(limit, b, f)
    \/ \E d \in Coordinates : sendMouseWheel(limit, d)
    \/ getGPIO(limit)
    \/ \E c \in Channels, f \in {Bool(TRUE), Bool(FALSE)} : setGPIO(limit, c, f)
    \/ \E c \in Channels, d \in Delays : pulseGPIO(limit, c, d)
    \/ \E m \in Methods, p \in Paths, b \in BodyArgs : request(limit, m, p, b)

\* Construction and the requests issued, over every configuration.
NextIssue ==
    \/ \E config \in JsConfigs : ConstructJs(config)
    \/ \E config \in PiKVMConfig : ConstructTs(config)
    \/ Invoke(MaxIssued)

SpecIssue == Init /\ [][NextIssue]_vars

-----------------------------------------------------------------------------
(* Decoding a response.                                                    *)

ReplacementChar == 65533

RECURSIVE Utf8Decode(_)
\* chunk.toString(), applied by data += chunk to each chunk on its own: a
\* byte that does not belong to a complete sequence within the chunk becomes
\* U+FFFD.  One- and two-byte sequences; the model sends no longer ones.
Utf8Decode(bytes) ==
    IF bytes = <<>> THEN <<>>
    ELSE LET b == Head(bytes)
         IN  IF b < 128 THEN <<b>> \o Utf8Decode(Tail(bytes))
             ELSE IF /\ b \in 194..223
                     /\ Len(bytes) >= 2
                     /\ bytes[2] \in 128..191
                  THEN <<(b - 192) * 64 + (bytes[2] - 128)>>
                       \o Utf8Decode(Tail(Tail(bytes)))
             ELSE <<ReplacementChar>> \o Utf8Decode(Tail(bytes))

Whitespace == {32, 9, 10, 13}
DigitCodes == 48..57

ParseFail == [ok |-> FALSE, val |-> Undefined, pos |-> 0]
Parsed(v, i) == [ok |-> TRUE, val |-> v, pos |-> i]

RECURSIVE SkipWs(_, _)
SkipWs(s, i) ==
    IF i <= Len(s) /\ s[i] \in Whitespace THEN SkipWs(s, i + 1) ELSE i

\* s holds the code points lit at position i.
Literal(s, i, lit) ==
    /\ i + Len(lit) - 1 <= Len(s)
    /\ SubSeq(s, i, i + Len(lit) - 1) = lit

RECURSIVE ParseDigits(_, _, _)
\* The digits from position i on, after the value n read so far.
ParseDigits(s, i, n) ==
    IF i <= Len(s) /\ s[i] \in DigitCodes
    THEN ParseDigits(s, i + 1, n * 10 + (s[i] - 48))
    ELSE Parsed(Num(n), i)

\* An integer: -?(0|[1-9][0-9]*).  The model sends no fraction or exponent.
ParseNumber(s, i) ==
    LET neg == s[i] = 45
        j == IF neg THEN i + 1 ELSE i
        r == IF s[j] = 48 THEN Parsed(Num(0), j + 1) ELSE ParseDigits(s, j, 0)
    IN  IF j > Len(s) \/ s[j] \notin DigitCodes THEN ParseFail
        ELSE IF neg THEN Parsed(Num(0 - r.val.val), r.pos) ELSE r

RECURSIVE ParseString(_, _, _)
\* The characters after an opening quote; the escapes \" \\ and \/.
ParseString(s, i, acc) ==
    IF i > Len(s) THEN ParseFail
    ELSE IF s[i] = 34 THEN Parsed(Str(acc), i + 1)
    ELSE IF s[i] = 92
         THEN IF i + 1 <= Len(s) /\ s[i + 1] \in {34, 92, 47}
              THEN ParseString(s, i + 2, Append(acc, s[i + 1]))
              ELSE ParseFail
    ELSE IF s[i] < 32 THEN ParseFail
    ELSE ParseString(s, i + 1, Append(acc, s[i]))

RECURSIVE SetProp(_, _, _)
\* Assigning a property: a repeated key keeps its place and takes the value.
SetProp(props, key, v) ==
    IF props = <<>> THEN << <<key, v>> >>
    ELSE IF Head(props)[1] = key THEN << <<key, v>> >> \o Tail(props)
    ELSE <<Head(props)>> \o SetProp(Tail(props), key, v)

RECURSIVE ParseValue(_, _), ParseElems(_, _, _), ParseMembers(_, _, _)
\* The value that starts at position i (whitespace skipped by the caller).
ParseValue(s, i) ==
    IF i > Len(s) THEN ParseFail
    ELSE CASE s[i] = 123 -> ParseMembers(s, SkipWs(s, i + 1), <<>>)
           [] s[i] = 91 -> ParseElems(s, SkipWs(s, i + 1), <<>>)
           [] s[i] = 34 -> ParseString(s, i + 1, <<>>)
           [] s[i] = 45 \/ s[i] \in DigitCodes -> ParseNumber(s, i)
           [] Literal(s, i, <<110, 117, 108, 108>>) -> Parsed(Null, i + 4)
           [] Literal(s, i, <<116, 114, 117, 101>>) -> Parsed(Bool(TRUE), i + 4)
           [] Literal(s, i, <<102, 97, 108, 115, 101>>) -> Parsed(Bool(FALSE), i + 5)
           [] OTHER -> ParseFail

\* The elements of an array after "[" or after a comma; acc: those read.
ParseElems(s, i, acc) ==
    IF i <= Len(s) /\ s[i] = 93 /\ acc = <<>> THEN Parsed(Arr(acc), i + 1)
    ELSE LET r == ParseValue(s, i)
             j == SkipWs(s, r.pos)
         IN  IF ~r.ok \/ j > Len(s) THEN ParseFail
             ELSE IF s[j] = 93 THEN Parsed(Arr(Append(acc, r.val)), j + 1)
             ELSE IF s[j] = 44
                  THEN ParseElems(s, SkipWs(s, j + 1), Append(acc, r.val))
             ELSE ParseFail

\* The members of an object after "{" or after a comma; acc: those read.
ParseMembers(s, i, acc) ==
    IF i <= Len(s) /\ s[i] = 125 /\ acc = <<>> THEN Parsed(Obj(acc), i + 1)
    ELSE IF i > Len(s) \/ s[i] # 34 THEN ParseFail
    ELSE LET k == ParseString(s, i + 1, <<>>)
             c == SkipWs(s, k.pos)
             r == ParseValue(s, SkipWs(s, c + 1))
             j == SkipWs(s, r.pos)
             props == SetProp(acc, Text(k.val.val), r.val)
         IN  IF ~k.ok \/ c > Len(s) \/ s[c] # 58 THEN ParseFail
             ELSE IF ~r.ok \/ j > Len(s) THEN ParseFail
             ELSE IF s[j] = 125 THEN Parsed(Obj(props), j + 1)
             ELSE IF s[j] = 44 THEN ParseMembers(s, SkipWs(s, j + 1), props)
             ELSE ParseFail

\* JSON.parse(s): the value, or a SyntaxError (ok is FALSE).
JSONParse(s) ==
    LET r == ParseValue(s, SkipWs(s, 1))
    IN  IF r.ok /\ SkipWs(s, r.pos) = Len(s) + 1
        THEN [ok |-> TRUE, val |-> r.val]
        ELSE [ok |-> FALSE, val |-> Undefined]

\* try { data ? JSON.parse(data) : {} } catch (e) { data }
DecodeBody(data) ==
    IF ~ToBoolean(Str(data)) THEN Obj(<<>>)
    ELSE IF JSONParse(data).ok THEN JSONParse(data).val
    ELSE Str(data)

RECURSIVE DecimalCps(_)
DecimalCps(n) ==
    IF n < 10 THEN <<48 + n>> ELSE DecimalCps(n \div 10) \o <<48 + (n % 10)>>

\* new Error("HTTP " + statusCode + ": " + data)
HttpError(statusCode, data) ==
    [name |-> "Error",
     message |-> <<72, 84, 84, 80, 32>> \o DecimalCps(statusCode) \o <<58, 32>> \o data]

\* A TypeScript class that takes the status 200 alone for a success.
StatusOkStrictTs(cls, statusCode) ==
    IF cls = "ts" THEN statusCode = 200
    ELSE statusCode >= 200 /\ statusCode < 300

\* The test of the status code in the end handler of the class cls.  The
\* JavaScript class tests res.statusCode >= 200 && res.statusCode < 300; the
\* TypeScript class first tests res.statusCode for truthiness.
StatusOk(cls, statusCode) ==
    IF cls = "ts"
    THEN ToBoolean(Num(statusCode)) /\ statusCode >= 200 /\ statusCode < 300
    ELSE statusCode >= 200 /\ statusCode < 300

\* The test of the class that was instantiated.
IsSuccess(statusCode) == StatusOk(impl, statusCode)

-----------------------------------------------------------------------------
(* request(): the promise, the response handler and the error handler.     *)

\* resolve(v): settles a pending promise and leaves a settled one alone.
Resolve(r, v) ==
    IF r.state = "pending" THEN [r EXCEPT !.state = "fulfilled", !.value = v]
    ELSE r

\* A reject that replaces an outcome already delivered.
RejectOverwriting(r, e) ==
    [r EXCEPT !.state = "rejected", !.error = e, !.value = Undefined]

\* reject(e): settles a pending promise and leaves a settled one alone.
Reject(r, e) ==
    IF r.state = "pending" THEN [r EXCEPT !.state = "rejected", !.error = e]
    ELSE r

\* res.on(end): the promise of r after the handler has run.
EndHandler(r) ==
    IF IsSuccess(r.statusCode) THEN Resolve(r, DecodeBody(r.data))
    ELSE Reject(r, HttpError(r.statusCode, r.data))

\* An error handler that rejects with an error of its own.
ErrorHandlerWrapped(r, e) == Reject(r, [name |-> "Error", code |-> "EREQUEST"])

\* req.on(error): the promise of r after the handler has run.
ErrorHandler(r, e) == Reject(r, e)

\* data + chunk
AppendChunk(data, chunk) == data \o Utf8Decode(chunk)

\* The callback of client.request: a response with this status line
\* arrives; the remote will send body.
OnResponse(i, statusCode, body) ==
    /\ resp[i].phase = "sent"
    /\ resp[i].errors = <<>>
    /\ resp' = [resp EXCEPT ![i] = [@ EXCEPT !.phase = "response",
                                              !.statusCode = statusCode,
                                              !.body = body,
                                              !.pending = body,
                                              !.data = <<>>]]
    /\ UNCHANGED <<impl, input, client, thrown, calls, uploads>>

\* A handler with a deadline of its own: a chunk that arrives after it fails
\* the call.
OnDataDeadline(i, n) ==
    /\ resp[i].phase = "response"
    /\ resp[i].errors = <<>>
    /\ n \in 1..Len(resp[i].pending)
    /\ LET chunk == SubSeq(resp[i].pending, 1, n)
       IN  resp' = [resp EXCEPT ![i] =
                       [Reject(@, [name |-> "Error", code |-> "ETIMEDOUT"])
                           EXCEPT !.pending = SubSeq(@, n + 1, Len(@)),
                                  !.received = @ \o chunk,
                                  !.data = AppendChunk(@, chunk)]]
    /\ UNCHANGED <<impl, input, client, thrown, calls, uploads>>

\* A handler that accumulates the chunks of all responses of the client in
\* one place instead of a variable of the call.
OnDataShared(i, n) ==
    /\ resp[i].phase = "response"
    /\ resp[i].errors = <<>>
    /\ n \in 1..Len(resp[i].pending)
    /\ LET chunk == SubSeq(resp[i].pending, 1, n)
       IN  resp' = [k \in 1..Len(resp) |->
                       IF k = i
                       THEN [resp[k] EXCEPT !.pending = SubSeq(@, n + 1, Len(@)),
                                            !.received = @ \o chunk,
                                            !.data = AppendChunk(@, chunk)]
                       ELSE IF resp[k].phase = "response"
                       THEN [resp[k] EXCEPT !.data = AppendChunk(@, chunk)]
                       ELSE resp[k]]
    /\ UNCHANGED <<impl, input, client, thrown, calls, uploads>>

\* res.on(data): the next n bytes of the body arrive as one chunk.  The
\* transport cuts the body into chunks wherever it likes.
OnData(i, n) ==
    /\ resp[i].phase = "response"
    /\ resp[i].errors = <<>>
    /\ n \in 1..Len(resp[i].pending)
    /\ LET chunk == SubSeq(resp[i].pending, 1, n)
       IN  resp' = [resp EXCEPT ![i] =
                       [@ EXCEPT !.pending = SubSeq(@, n + 1, Len(@)),
                                 !.received = @ \o chunk,
                                 !.data = AppendChunk(@, chunk)]]
    /\ UNCHANGED <<impl, input, client, thrown, calls, uploads>>

\* res.on(end): the whole body has arrived.
OnEnd(i) ==
    /\ resp[i].phase = "response"
    /\ resp[i].pending = <<>>
    /\ resp' = [resp EXCEPT ![i] = [EndHandler(@) EXCEPT !.phase = "ended"]]
    /\ UNCHANGED <<impl, input, client, thrown, calls, uploads>>

\* An error handler that issues the request again.
OnErrorRetry(i, e) ==
    /\ resp[i].phase \in {"sent", "response", "ended"}
    /\ Len(resp[i].errors) < MaxErrors
    /\ calls' = [calls EXCEPT ![i].connections = @ + 1]
    /\ resp' = [resp EXCEPT ![i] =
                   [NewResponse EXCEPT !.errors = Append(resp[i].errors, e)]]
    /\ UNCHANGED <<impl, input, client, thrown, uploads>>

\* req.on(error): the transport reports the error e.
OnError(i, e) ==
    /\ resp[i].phase \in {"sent", "response", "ended"}
    /\ Len(resp[i].errors) < MaxErrors
    /\ resp' = [resp EXCEPT ![i] =
                   [ErrorHandler(@, e) EXCEPT !.errors = Append(@, e)]]
    /\ UNCHANGED <<impl, input, client, thrown, calls, uploads>>

\* The connection closes before the response has ended and no error is
\* reported on the request: no handler of request() runs.
Aborted(i) ==
    /\ resp[i].phase = "response"
    /\ resp[i].errors = <<>>
    /\ resp' = [resp EXCEPT ![i] = [@ EXCEPT !.phase = "aborted"]]
    /\ UNCHANGED <<impl, input, client, thrown, calls, uploads>>

-----------------------------------------------------------------------------
(* The remote and the transport.                                           *)

\* (empty)  {}  {"a":1}  [1]  OK  "e-acute" in quotes  e-acute and !
Bodies ==
    {<<>>, <<123, 125>>, <<123, 34, 97, 34, 58, 49, 125>>, <<91, 49, 93>>,
     <<79, 75>>, <<34, 195, 169, 34>>, <<195, 169, 33>>}

\* The responses of the remote: status code and body.
Responses ==
    ({200} \X Bodies)
    \cup ({299} \X {<<123, 125>>})
    \cup ({199, 300, 500} \X {<<>>})
    \cup ({401} \X {<<>>, <<123, 125>>, <<195, 169, 33>>})

TransportErrors ==
    {[name |-> "Error", code |-> "ECONNREFUSED"],
     [name |-> "Error", code |-> "ECONNRESET"]}

\* The methods invoked where the responses are observed.
InvokeWire(limit) ==
    \/ getInfo(limit)
    \/ powerOn(limit)

Next ==
    \/ \E config \in WireConfigs : ConstructJs(config)
    \/ \E config \in WireConfigs : ConstructTs(config)
    \/ InvokeWire(MaxCalls)
    \/ \E i \in 1..Len(calls), r \in Responses : OnResponse(i, r[1], r[2])
    \/ \E i \in 1..Len(calls) : \E n \in 1..Len(resp[i].pending) : OnData(i, n)
    \/ \E i \in 1..Len(calls) : OnEnd(i)
    \/ \E i \in 1..Len(calls), e \in TransportErrors : OnError(i, e)
    \/ \E i \in 1..Len(calls) : Aborted(i)

Spec == Init /\ [][Next]_vars

\* The transport delivers what it holds of call i: the next chunk of a
\* response that is not cut, or its end once the body has arrived.
Deliver(i) ==
    /\ i \in 1..Len(calls)
    /\ \/ \E n \in 1..Len(resp[i].pending) : OnData(i, n)
       \/ OnEnd(i)

\* Node runs the handler of every event the transport has emitted, so a
\* response under way goes on to its end unless it is cut.  Nothing obliges
\* the remote to answer, the transport to fail or the caller to call.
SpecLive == Spec /\ \A i \in 1..MaxCalls : WF_vars(Deliver(i))

-----------------------------------------------------------------------------
(* What a wrapper returns.                                                 *)

\* The methods that read the device's state.
Readers == {"getInfo", "getATXInfo", "getMSDInfo", "getGPIO"}

\* Every wrapper awaiting request() and returning nothing.
ReturnedVoid(i) ==
    [state |-> resp[i].state,
     value |-> Undefined,
     error |-> resp[i].error]

\* Every wrapper catching the failure of request() and returning nothing.
ReturnedRecovering(i) ==
    [state |-> IF resp[i].state = "rejected" THEN "fulfilled" ELSE resp[i].state,
     value |-> IF impl = "ts" /\ calls[i].op \notin Readers \cup {"request"}
               THEN Undefined
               ELSE resp[i].value,
     error |-> Undefined]

\* The promise the method of call i returned.  A JavaScript wrapper returns
\* the promise of request().  A TypeScript wrapper is async: a reader
\* returns the promise of request(), which its own promise adopts; any
\* other wrapper awaits it and returns nothing, so that a failure is
\* rethrown and a success yields undefined.
Returned(i) ==
    [state |-> resp[i].state,
     value |-> IF impl = "ts" /\ calls[i].op \notin Readers \cup {"request"}
               THEN Undefined
               ELSE resp[i].value,
     error |-> resp[i].error]

\* [1], OK and "\u00e9" with status 200, nothing with status 204, no with
\* status 401.
ReadResponses ==
    {<<200, <<91, 49, 93>>>>, <<200, <<79, 75>>>>, <<200, <<34, 195, 169, 34>>>>,
     <<204, <<>>>>, <<401, <<110, 111>>>>}

InvokeRead(limit) ==
    \/ getInfo(limit)
    \/ getATXInfo(limit)
    \/ getMSDInfo(limit)
    \/ getGPIO(limit)

\* The reading methods and the responses to them.
NextRead ==
    \/ \E config \in WireConfigs : ConstructJs(config)
    \/ \E config \in WireConfigs : ConstructTs(config)
    \/ InvokeRead(MaxReads)
    \/ \E i \in 1..Len(calls), r \in ReadResponses : OnResponse(i, r[1], r[2])
    \/ \E i \in 1..Len(calls) : \E n \in 1..Len(resp[i].pending) : OnData(i, n)
    \/ \E i \in 1..Len(calls) : OnEnd(i)
    \/ \E i \in 1..Len(calls), e \in TransportErrors : OnError(i, e)
    \/ \E i \in 1..Len(calls) : Aborted(i)

SpecRead == Init /\ [][NextRead]_vars

-----------------------------------------------------------------------------
(* Several calls in flight on one client.                                  *)

\* OK and 7 with status 200, 7 with status 401.
ConcurrentResponses == {<<200, <<79, 75>>>>, <<200, <<55>>>>, <<401, <<55>>>>}

\* The error a connection reset reports.
ConcurrentErrors == {[name |-> "Error", code |-> "ECONNRESET"]}

InvokeConcurrent(limit) ==
    \/ getInfo(limit)
    \/ powerOn(limit)

\* Calls are made while earlier ones are in flight, and the events of the
\* calls in flight come in any order.
NextConcurrent ==
    \/ \E config \in WireConfigs : ConstructJs(config)
    \/ \E config \in WireConfigs : ConstructTs(config)
    \/ InvokeConcurrent(MaxInFlight)
    \/ \E i \in 1..Len(calls), r \in ConcurrentResponses :
          OnResponse(i, r[1], r[2])
    \/ \E i \in 1..Len(calls) : \E n \in 1..Len(resp[i].pending) : OnData(i, n)
    \/ \E i \in 1..Len(calls) : OnEnd(i)
    \/ \E i \in 1..Len(calls), e \in ConcurrentErrors : OnError(i, e)
    \/ \E i \in 1..Len(calls) : Aborted(i)

SpecConcurrent == Init /\ [][NextConcurrent]_vars

-----------------------------------------------------------------------------
(* A read repeated.                                                        *)

\* "\u00e9" and 7 with status 200, \u00e9 with status 401.
RepeatResponses ==
    {<<200, <<34, 195, 169, 34>>>>, <<200, <<55>>>>, <<401, <<195, 169>>>>}

\* getInfo is called again and again; the remote answers each call.
NextRepeat ==
    \/ \E config \in WireConfigs : ConstructJs(config)
    \/ \E config \in WireConfigs : ConstructTs(config)
    \/ getInfo(MaxRepeats)
    \/ \E i \in 1..Len(calls), r \in RepeatResponses : OnResponse(i, r[1], r[2])
    \/ \E i \in 1..Len(calls) : \E n \in 1..Len(resp[i].pending) : OnData(i, n)
    \/ \E i \in 1..Len(calls) : OnEnd(i)
    \/ \E i \in 1..Len(calls), e \in ConcurrentErrors : OnError(i, e)
    \/ \E i \in 1..Len(calls) : Aborted(i)

SpecRepeat == Init /\ [][NextRepeat]_vars

-----------------------------------------------------------------------------
(* Every wrapper and its outcome.                                          *)

\* Configurations both classes accept: the defaults, and plain HTTP with
\* certificates verified.
EachConfigs ==
    {cfg \in PiKVMConfig :
        /\ ToBoolean(cfg.host) /\ ToBoolean(cfg.username) /\ ToBoolean(cfg.password)
        /\ cfg.port = Undefined
        /\ \/ cfg.secure = Undefined /\ cfg.rejectUnauthorized = Undefined
           \/ cfg.secure = Bool(FALSE) /\ cfg.rejectUnauthorized = Bool(TRUE)}

\* 7 with status 200, nothing with status 204, nothing with status 500.
EachResponses == {<<200, <<55>>>>, <<204, <<>>>>, <<500, <<>>>>}

\* Every method that issues a request, with one list of arguments each.
InvokeEach(limit) ==
    \/ getInfo(limit)
    \/ getATXInfo(limit)
    \/ clickATXButton(limit, ATXButton.RESET, Bool(FALSE))
    \/ powerOn(limit)
    \/ powerOff(limit)
    \/ forcePowerOff(limit)
    \/ reset(limit)
    \/ getMSDInfo(limit)
    \/ setMSDImage(limit, Null, Undefined)
    \/ connectMSD(limit)
    \/ disconnectMSD(limit)
    \/ removeMSDImage(limit, Str(<<97, 46, 105, 115, 111>>))
    \/ sendKeys(limit, Arr(<<Str(<<97>>)>>))
    \/ sendMouseMove(limit, Num(0), Num(0 - 5))
    \/ sendMouseButton(limit, Str(<<108, 101, 102, 116>>), Bool(TRUE))
    \/ sendMouseWheel(limit, Num(0))
    \/ getGPIO(limit)
    \/ setGPIO(limit, Str(<<99, 49>>), Bool(FALSE))
    \/ pulseGPIO(limit, Str(<<99, 49>>), Undefined)

NextEach ==
    \/ \E config \in EachConfigs : ConstructJs(config)
    \/ \E config \in EachConfigs : ConstructTs(config)
    \/ InvokeEach(MaxEach)
    \/ \E i \in 1..Len(calls), r \in EachResponses : OnResponse(i, r[1], r[2])
    \/ \E i \in 1..Len(calls) : \E n \in 1..Len(resp[i].pending) : OnData(i, n)
    \/ \E i \in 1..Len(calls) : OnEnd(i)
    \/ \E i \in 1..Len(calls), e \in ConcurrentErrors : OnError(i, e)
    \/ \E i \in 1..Len(calls) : Aborted(i)

SpecEach == Init /\ [][NextEach]_vars

-----------------------------------------------------------------------------
(* Properties of construction and of the requests issued (SpecIssue).      *)

Constructed == client # NoClient

\* C1: constructing a client from a configuration in which host, username
\* or password is absent or empty throws "host, username, and password are
\* required", creates no client and issues no request, in the JavaScript
\* class and in the TypeScript class alike.
C1_MissingCredentialsRejected ==
    (impl # "none" /\ MissingRequired(input)) =>
        /\ thrown = RequiredMessage
        /\ client = NoClient
        /\ calls = <<>>

\* C2: the effective port is 443 when port is unset and secure is unset or
\* true, 80 when port is unset and secure is false, and the supplied port
\* whenever one is supplied, 0 included.
C2_EffectivePort ==
    Constructed =>
        client.config.port =
            IF input.port = Undefined
            THEN IF input.secure = Bool(FALSE) THEN Num(DefaultPlainPort)
                 ELSE Num(DefaultSecurePort)
            ELSE input.port

\* C3: the effective secure flag is true when secure is unset and the
\* supplied boolean otherwise; the effective rejectUnauthorized is false
\* when unset and the supplied boolean otherwise; every request goes over
\* https exactly when the effective secure flag is true, over http
\* otherwise, and carries the effective rejectUnauthorized, whatever the
\* port.
C3_TransportFollowsSecureFlag ==
    Constructed =>
        /\ client.config.secure =
               IF input.secure = Undefined THEN Bool(TRUE) ELSE input.secure
        /\ client.config.rejectUnauthorized =
               IF input.rejectUnauthorized = Undefined THEN Bool(FALSE)
               ELSE input.rejectUnauthorized
        /\ \A i \in 1..Len(calls) :
              /\ calls[i].transport = "https" <=> client.config.secure = Bool(TRUE)
              /\ calls[i].transport = "http" <=> client.config.secure = Bool(FALSE)
              /\ calls[i].options.rejectUnauthorized = client.config.rejectUnauthorized

\* A request went out over https to the explicit port 80 of a client built
\* with secure unset and certificate validation switched on.
C3_Witness ==
    /\ Constructed
    /\ input.secure = Undefined
    /\ input.port = Num(DefaultPlainPort)
    /\ input.rejectUnauthorized = Bool(TRUE)
    /\ \E i \in 1..Len(calls) :
          /\ calls[i].transport = "https"
          /\ calls[i].options.port = Num(DefaultPlainPort)
          /\ calls[i].options.rejectUnauthorized = Bool(TRUE)

\* base64 of "username:password" for the credentials of the model, from
\* RFC 4648: ":" "admin:" ":pw1" "admin:pw1".
KnownBase64(username, password) ==
    CASE username = <<>> /\ password = <<>> -> "Og=="
      [] username # <<>> /\ password = <<>> -> "YWRtaW46"
      [] username = <<>> /\ password # <<>> -> "OnB3MQ=="
      [] OTHER -> "YWRtaW46cHcx"

\* C9: every request, GET or POST, with or without a body, carries
\* Authorization: "Basic " and the base64 of username:password as given at
\* construction, and Content-Type: application/json.
C9_EveryRequestAuthenticated ==
    \A i \in 1..Len(calls) :
        /\ calls[i].options.headers.Authorization =
               "Basic " \o KnownBase64(input.username.val, input.password.val)
        /\ calls[i].options.headers.Authorization =
               "Basic " \o Base64(Utf8Encode(input.username.val \o <<58>>
                                              \o input.password.val))
        /\ calls[i].options.headers.ContentType = "application/json"

\* A GET without a payload went out with the credentials admin:pw1.
C9_Witness ==
    \E i \in 1..Len(calls) :
        /\ calls[i].method = "GET"
        /\ calls[i].written = <<>>
        /\ calls[i].options.headers.Authorization = "Basic YWRtaW46cHcx"

\* C10: request(method, path, body) writes JSON.stringify(body) as the
\* payload whenever a body is supplied, for objects, arrays and the
\* primitives false, 0, "" and null alike, and writes nothing when the body
\* is omitted.
C10_SuppliedBodyIsWritten ==
    \A i \in 1..Len(calls) :
        calls[i].written =
            IF calls[i].body = Undefined THEN <<>>
            ELSE <<JSONStringify(calls[i].body)>>

-----------------------------------------------------------------------------
(* Properties of the responses (Spec).                                     *)

\* C4: when a response with a status in [200,300) has ended, the call has
\* succeeded with the value of the complete body, the concatenation of the
\* chunks received: {} for an empty body, the parsed value for valid JSON,
\* the body text itself otherwise.  Stated for the responses on which the
\* transport reported no error.
C4_SuccessDecodesWholeBody ==
    \A i \in 1..Len(resp) :
        (/\ resp[i].phase = "ended"
         /\ resp[i].errors = <<>>
         /\ resp[i].statusCode >= 200 /\ resp[i].statusCode < 300) =>
            /\ resp[i].state = "fulfilled"
            /\ resp[i].value = DecodeBody(Utf8Decode(resp[i].received))

\* C5: when a response with a status outside [200,300) has ended, the call
\* has failed with the message "HTTP <status>: <body>", the body being the
\* text received, unparsed.  Stated for the responses on which the
\* transport reported no error.
C5_FailureCarriesStatusAndBody ==
    \A i \in 1..Len(resp) :
        (/\ resp[i].phase = "ended"
         /\ resp[i].errors = <<>>
         /\ ~(resp[i].statusCode >= 200 /\ resp[i].statusCode < 300)) =>
            /\ resp[i].state = "rejected"
            /\ resp[i].error =
                   HttpError(resp[i].statusCode, Utf8Decode(resp[i].received))

\* C6, as claimed: once the transport has reported an error for a request,
\* the call has failed with an error the transport reported, and has not
\* succeeded.
C6_AnyTransportErrorFailsCall ==
    \A i \in 1..Len(resp) :
        resp[i].errors # <<>> =>
            /\ resp[i].state = "rejected"
            /\ \E k \in 1..Len(resp[i].errors) : resp[i].error = resp[i].errors[k]

\* C6, amended: an error the transport reports while the call is pending
\* fails the call with exactly that error.
C6_ErrorWhilePendingFailsCall ==
    [][\A i \in 1..Len(resp) :
          (/\ resp[i].state = "pending"
           /\ Len(resp'[i].errors) = Len(resp[i].errors) + 1) =>
              /\ resp'[i].state = "rejected"
              /\ resp'[i].error = resp'[i].errors[Len(resp'[i].errors)]
              /\ resp'[i].value = Undefined]_vars

\* A call failed with ECONNRESET, reported in the middle of a response with
\* status 200.
C6_Witness ==
    \E i \in 1..Len(resp) :
        /\ resp[i].phase = "response"
        /\ resp[i].statusCode = 200
        /\ resp[i].received # <<>>
        /\ resp[i].state = "rejected"
        /\ resp[i].errors = <<[name |-> "Error", code |-> "ECONNRESET"]>>
        /\ resp[i].error = [name |-> "Error", code |-> "ECONNRESET"]

\* C7: every invocation of request(), directly or through a wrapper, opens
\* one connection and issues one request, whatever its outcome: none is
\* made again after an HTTP error or a transport error.
C7_OneConnectionPerCall ==
    /\ Len(resp) = Len(calls)
    /\ \A i \in 1..Len(calls) : calls[i].connections = 1 /\ calls[i].ended

\* A call made through the wrapper powerOn has failed on a transport error
\* and still counts one connection.
C7_Witness ==
    \E i \in 1..Len(calls) :
        /\ calls[i].op = "powerOn"
        /\ resp[i].state = "rejected"
        /\ resp[i].errors # <<>>
        /\ calls[i].connections = 1

\* C8: once the response has ended or the transport has reported an error
\* the promise is settled; it is fulfilled or rejected, never both; and no
\* later event changes the outcome delivered.
C8_SettledExactlyOnce ==
    /\ [](\A i \in 1..Len(resp) :
            /\ (resp[i].phase = "ended" \/ resp[i].errors # <<>>) =>
                   resp[i].state \in {"fulfilled", "rejected"}
            /\ resp[i].state = "fulfilled" => resp[i].error = Undefined
            /\ resp[i].state = "rejected" => resp[i].value = Undefined
            /\ resp[i].state = "pending" =>
                   resp[i].value = Undefined /\ resp[i].error = Undefined)
    /\ [][\A i \in 1..Len(resp) :
             resp[i].state # "pending" =>
                 /\ resp'[i].state = resp[i].state
                 /\ resp'[i].value = resp[i].value
                 /\ resp'[i].error = resp[i].error]_vars

\* The transport reported an error after the response had ended and the
\* call had succeeded; the call is still fulfilled.
C8_Witness ==
    \E i \in 1..Len(resp) :
        /\ resp[i].phase = "ended"
        /\ resp[i].errors # <<>>
        /\ resp[i].state = "fulfilled"

-----------------------------------------------------------------------------
(* The typed wrappers: what each sends.                                    *)

\* The name the device gives an ATX button in the query string.
ButtonName(b) ==
    CASE b = ATXButton.POWER -> "power"
      [] b = ATXButton.POWER_LONG -> "power_long"
      [] b = ATXButton.RESET -> "reset"

\* C11: clickATXButton(button, wait) issues one POST to
\* /api/atx/click?button=<button>&wait=<w> with the JSON payload {}, where w
\* is 1 when wait is true or omitted and 0 when wait is false; the wait
\* parameter is always part of the query.
C11_ClickSendsButtonAndWait ==
    \A i \in 1..Len(calls) :
        calls[i].op = "clickATXButton" =>
            LET button == calls[i].args[1]
                wait == calls[i].args[2]
                target == "/api/atx/click?button=" \o ButtonName(button)
                              \o "&wait="
                              \o (IF wait = Bool(FALSE) THEN "0" ELSE "1")
            IN  /\ calls[i].options.method = "POST"
                /\ calls[i].options.path = target
                /\ calls[i].written = <<"{}">>
                /\ calls[i].connections = 1

\* clickATXButton(power_long, false) asked for wait=0.
C11_Witness ==
    \E i \in 1..Len(calls) :
        /\ calls[i].op = "clickATXButton"
        /\ calls[i].args = <<ATXButton.POWER_LONG, Bool(FALSE)>>
        /\ calls[i].options.path = "/api/atx/click?button=power_long&wait=0"

\* The button each alias of clickATXButton presses.
AliasButton(op) ==
    CASE op = "powerOn" -> "power"
      [] op = "powerOff" -> "power"
      [] op = "forcePowerOff" -> "power_long"
      [] op = "reset" -> "reset"

\* C12: powerOn, powerOff, forcePowerOff and reset issue the POST that
\* clickATXButton issues for power, power, power_long and reset with wait
\* omitted: /api/atx/click?button=<name>&wait=1 with the payload {}.  The
\* requests of powerOn and powerOff are the same in method, path, headers
\* and payload.
C12_AliasesClickWithDefaultWait ==
    \A i \in 1..Len(calls) :
        calls[i].op \in {"powerOn", "powerOff", "forcePowerOff", "reset"} =>
            /\ calls[i].args = <<>>
            /\ calls[i].options.method = "POST"
            /\ calls[i].options.path =
                   "/api/atx/click?button=" \o AliasButton(calls[i].op)
                       \o "&wait=1"
            /\ calls[i].options.headers =
                   [Authorization |-> client.authHeader,
                    ContentType |-> "application/json"]
            /\ calls[i].written = <<"{}">>
            /\ calls[i].connections = 1

\* powerOff pressed the power button, as powerOn does.
C12_Witness ==
    \E i \in 1..Len(calls) :
        /\ calls[i].op = "powerOff"
        /\ calls[i].options.path = "/api/atx/click?button=power&wait=1"
        /\ calls[i].written = <<"{}">>

\* The path each reading method asks for.
ReaderPath(op) ==
    CASE op = "getInfo" -> "/api/info"
      [] op = "getATXInfo" -> "/api/atx"
      [] op = "getMSDInfo" -> "/api/msd"
      [] op = "getGPIO" -> "/api/gpio"

\* C13: getInfo, getATXInfo, getMSDInfo and getGPIO each issue one GET to
\* /api/info, /api/atx, /api/msd and /api/gpio, write no payload, and settle
\* as the request settles: with the decoded response, unchanged, on success
\* and with the request's error on failure.
C13_ReadersGetAndReturnResponse ==
    \A i \in 1..Len(calls) :
        calls[i].op \in Readers =>
            /\ calls[i].options.method = "GET"
            /\ calls[i].options.path = ReaderPath(calls[i].op)
            /\ calls[i].written = <<>>
            /\ calls[i].connections = 1
            /\ Returned(i).state = resp[i].state
            /\ Returned(i).error = resp[i].error
            /\ resp[i].state = "fulfilled" =>
                   /\ Returned(i).value = resp[i].value
                   /\ Returned(i).value = DecodeBody(resp[i].data)

\* getGPIO on the TypeScript client returned the array [1] the device sent.
C13_Witness ==
    \E i \in 1..Len(calls) :
        /\ impl = "ts"
        /\ calls[i].op = "getGPIO"
        /\ calls[i].options.path = "/api/gpio"
        /\ resp[i].phase = "ended"
        /\ Returned(i).state = "fulfilled"
        /\ Returned(i).value = Arr(<<Num(1)>>)

\* The JSON text of the image names the model passes.
ImageJson(image) ==
    CASE image = Null -> "null"
      [] image = Str(<<97, 46, 105, 115, 111>>) -> "\"a.iso\""
      [] image = Str(<<97, 32, 98, 38, 99, 46, 105, 115, 111>>) ->
             "\"a b&c.iso\""

\* C14: setMSDImage(image, cdrom) posts {image, cdrom} to
\* /api/msd/set_params, with cdrom false when omitted and image possibly
\* null; connectMSD posts {connected: true} and disconnectMSD posts
\* {connected: false} to /api/msd/set_connected, so that connected is
\* always there and a boolean.
C14_MassStorageRequests ==
    \A i \in 1..Len(calls) :
        /\ calls[i].op = "setMSDImage" =>
               /\ calls[i].options.method = "POST"
               /\ calls[i].options.path = "/api/msd/set_params"
               /\ calls[i].written =
                      <<"{\"image\":" \o ImageJson(calls[i].args[1])
                        \o ",\"cdrom\":"
                        \o (IF calls[i].args[2] = Bool(TRUE) THEN "true"
                            ELSE "false")
                        \o "}">>
               /\ calls[i].connections = 1
        /\ calls[i].op \in {"connectMSD", "disconnectMSD"} =>
               /\ calls[i].options.method = "POST"
               /\ calls[i].options.path = "/api/msd/set_connected"
               /\ calls[i].written =
                      <<IF calls[i].op = "connectMSD"
                        THEN "{\"connected\":true}"
                        ELSE "{\"connected\":false}">>
               /\ calls[i].connections = 1

\* setMSDImage(null) cleared the image and left cdrom false.
C14_Witness ==
    \E i \in 1..Len(calls) :
        /\ calls[i].op = "setMSDImage"
        /\ calls[i].args = <<Null, Undefined>>
        /\ calls[i].written = <<"{\"image\":null,\"cdrom\":false}">>

-----------------------------------------------------------------------------
(* The query string as the device reads it.                                *)

IsHex(cp) == cp \in (48..57) \cup (65..70) \cup (97..102)

HexValue(cp) ==
    CASE cp \in 48..57 -> cp - 48
      [] cp \in 65..70 -> cp - 55
      [] cp \in 97..102 -> cp - 87

RECURSIVE PercentDecode(_)
\* The bytes of a query component: %XX is a byte, + is a space.
PercentDecode(cps) ==
    IF cps = <<>> THEN <<>>
    ELSE IF Head(cps) = 37 /\ Len(cps) >= 3 /\ IsHex(cps[2]) /\ IsHex(cps[3])
         THEN <<HexValue(cps[2]) * 16 + HexValue(cps[3])>>
              \o PercentDecode(SubSeq(cps, 4, Len(cps)))
    ELSE IF Head(cps) = 43 THEN <<32>> \o PercentDecode(Tail(cps))
    ELSE <<Head(cps)>> \o PercentDecode(Tail(cps))

DecodeComponent(cps) == Utf8Decode(PercentDecode(cps))

RECURSIVE Before(_, _)
\* The part of cps before the first sep, all of it if there is none.
Before(cps, sep) ==
    IF cps = <<>> \/ Head(cps) = sep THEN <<>>
    ELSE <<Head(cps)>> \o Before(Tail(cps), sep)

\* The part of cps after the first sep, nothing if there is none.
After(cps, sep) == SubSeq(cps, Len(Before(cps, sep)) + 2, Len(cps))

RECURSIVE Split(_, _)
Split(cps, sep) ==
    IF Len(Before(cps, sep)) = Len(cps) THEN <<cps>>
    ELSE <<Before(cps, sep)>> \o Split(After(cps, sep), sep)

\* The parameters of a request target: what stands between the first ? and
\* the first # after it, cut at every &, each part cut at its first =.
QueryParameters(target) ==
    LET parts == Split(Before(After(target, 63), 35), 38)
    IN  [k \in 1..Len(parts) |->
            [name |-> DecodeComponent(Before(parts[k], 61)),
             value |-> DecodeComponent(After(parts[k], 61))]]

\* /api/msd/remove?image=
RemoveTarget ==
    <<47, 97, 112, 105, 47, 109, 115, 100, 47, 114, 101, 109, 111, 118, 101,
      63, 105, 109, 97, 103, 101, 61>>

\* C15: removeMSDImage(image) issues one POST to /api/msd/remove?image=<e>
\* with the payload {}, where e is the percent-encoded name: whatever the
\* name holds (space, &, =, ?, #, /, %, +, characters outside ASCII), the
\* query has exactly one parameter, named image, and its decoded value is the
\* name.
C15_RemoveEncodesImageName ==
    \A i \in 1..Len(calls) :
        calls[i].op = "removeMSDImage" =>
            LET name == calls[i].args[1].val
                target == RemoveTarget \o EncodeURIComponent(name)
            IN  /\ calls[i].options.method = "POST"
                /\ calls[i].options.path = Text(target)
                /\ Text(RemoveTarget) = "/api/msd/remove?image="
                /\ Before(target, 63) = SubSeq(RemoveTarget, 1, 15)
                /\ QueryParameters(target) =
                       <<[name |-> <<105, 109, 97, 103, 101>>, value |-> name]>>
                /\ calls[i].written = <<"{}">>
                /\ calls[i].connections = 1

\* The name =?#/% went out as %3D%3F%23%2F%25.
C15_Witness ==
    \E i \in 1..Len(calls) :
        /\ calls[i].op = "removeMSDImage"
        /\ calls[i].args = <<Str(<<61, 63, 35, 47, 37>>)>>
        /\ calls[i].options.path = "/api/msd/remove?image=%3D%3F%23%2F%25"

-----------------------------------------------------------------------------
(* Input and GPIO wrappers.                                                *)

\* The JSON text of the key lists the model passes.
KeysJson(keys) ==
    CASE keys = Arr(<<>>) -> "[]"
      [] keys = Arr(<<Str(<<97>>)>>) -> "[\"a\"]"
      [] keys = Arr(<<Str(<<98>>), Str(<<97>>)>>) -> "[\"b\",\"a\"]"

\* The JSON text of the numbers the model passes.
NumberJson(n) ==
    CASE n = Num(0) -> "0"
      [] n = Num(2) -> "2"
      [] n = Num(0 - 5) -> "-5"

BooleanJson(b) == IF b = Bool(TRUE) THEN "true" ELSE "false"

\* C16: sendKeys(keys) posts {keys} to /api/hid/events/send_key,
\* sendMouseMove(x, y) posts {x, y} to .../send_mouse_move,
\* sendMouseButton(button, state) posts {button, state} to
\* .../send_mouse_button and sendMouseWheel(delta) posts {delta} to
\* .../send_mouse_wheel; the values 0, false and the empty key list are sent
\* like any other.
C16_InputEventsSentAsGiven ==
    \A i \in 1..Len(calls) :
        LET a == calls[i].args
            sent(path, payload) ==
                /\ calls[i].options.method = "POST"
                /\ calls[i].options.path = path
                /\ calls[i].written = <<payload>>
                /\ calls[i].connections = 1
        IN  /\ calls[i].op = "sendKeys" =>
                   sent("/api/hid/events/send_key",
                        "{\"keys\":" \o KeysJson(a[1]) \o "}")
            /\ calls[i].op = "sendMouseMove" =>
                   sent("/api/hid/events/send_mouse_move",
                        "{\"x\":" \o NumberJson(a[1]) \o ",\"y\":"
                            \o NumberJson(a[2]) \o "}")
            /\ calls[i].op = "sendMouseButton" =>
                   sent("/api/hid/events/send_mouse_button",
                        "{\"button\":\"left\",\"state\":"
                            \o BooleanJson(a[2]) \o "}")
            /\ calls[i].op = "sendMouseWheel" =>
                   sent("/api/hid/events/send_mouse_wheel",
                        "{\"delta\":" \o NumberJson(a[1]) \o "}")

\* sendMouseMove(0, 0) sent both coordinates.
C16_Witness ==
    \E i \in 1..Len(calls) :
        /\ calls[i].op = "sendMouseMove"
        /\ calls[i].args = <<Num(0), Num(0)>>
        /\ calls[i].written = <<"{\"x\":0,\"y\":0}">>

\* C17: setGPIO(channel, state) posts {channel, state} to /api/gpio/switch;
\* pulseGPIO(channel, delay) posts {channel, delay} to /api/gpio/pulse, with
\* delay 0 when omitted and the value given otherwise.
C17_GpioRequests ==
    \A i \in 1..Len(calls) :
        LET a == calls[i].args
        IN  /\ calls[i].op = "setGPIO" =>
                   /\ calls[i].options.method = "POST"
                   /\ calls[i].options.path = "/api/gpio/switch"
                   /\ calls[i].written =
                          <<"{\"channel\":\"c1\",\"state\":"
                            \o BooleanJson(a[2]) \o "}">>
                   /\ calls[i].connections = 1
            /\ calls[i].op = "pulseGPIO" =>
                   /\ calls[i].options.method = "POST"
                   /\ calls[i].options.path = "/api/gpio/pulse"
                   /\ calls[i].written =
                          <<"{\"channel\":\"c1\",\"delay\":"
                            \o (IF a[2] = Undefined THEN "0"
                                ELSE NumberJson(a[2]))
                            \o "}">>
                   /\ calls[i].connections = 1

\* pulseGPIO(c1) pulsed with the delay 0.
C17_Witness ==
    \E i \in 1..Len(calls) :
        /\ calls[i].op = "pulseGPIO"
        /\ calls[i].args = <<Str(<<99, 49>>), Undefined>>
        /\ calls[i].written = <<"{\"channel\":\"c1\",\"delay\":0}">>

-----------------------------------------------------------------------------
(* Upload.                                                                 *)

\* C18: writeMSDImage(image, data) fails on every client, of either class
\* and whatever its configuration, for every name and data, with the error
\* that says the upload is not implemented, and issues no request.
C18_UploadAlwaysNotImplemented ==
    \A k \in 1..Len(uploads) :
        /\ uploads[k].outcome = "rejected"
        /\ uploads[k].error =
               [name |-> "Error",
                message |-> "MSD image upload not implemented - "
                    \o "use HTTP multipart/form-data directly"]
        /\ uploads[k].requests = 0

-----------------------------------------------------------------------------
(* The stored Authorization header.                                        *)

\* C19: the Authorization header is computed when the client is constructed
\* and stored; no step taken afterwards changes the stored value, which
\* stays the one computed from the configuration given to the constructor,
\* and every request sends the stored value.
C19_AuthHeaderStoredOnce ==
    /\ [](Constructed =>
             client.authHeader = AuthHeader(EffectiveConfig(input)))
    /\ [](\A i \in 1..Len(calls) :
             calls[i].options.headers.Authorization = client.authHeader)
    /\ [][Constructed => client'.authHeader = client.authHeader]_vars

\* A POST went out with the header stored for admin and an empty password.
C19_Witness ==
    \E i \in 1..Len(calls) :
        /\ calls[i].method = "POST"
        /\ client.authHeader = "Basic YWRtaW46"
        /\ calls[i].options.headers.Authorization = client.authHeader

-----------------------------------------------------------------------------
(* Calls in flight together.                                               *)

\* C20: with several calls in flight on one client, whatever the order of
\* their chunks, ends and errors, the body a call has accumulated is made of
\* the chunks of its own response and nothing else; a call that has settled
\* has the outcome of its own response (its decoded body, the HTTP error of
\* its own status and body, or the first transport error reported on it);
\* an event of one call changes nothing of another; and a call whose
\* response has arrived in full can end whatever state the others are in.
C20_CallsAreIsolated ==
    /\ [](\A i \in 1..Len(resp) :
             /\ resp[i].received \o resp[i].pending = resp[i].body
             /\ resp[i].data = Utf8Decode(resp[i].received)
             /\ resp[i].state = "fulfilled" =>
                    /\ IsSuccess(resp[i].statusCode)
                    /\ resp[i].value = DecodeBody(Utf8Decode(resp[i].body))
             /\ resp[i].state = "rejected" =>
                    \/ /\ resp[i].errors # <<>>
                       /\ resp[i].error = resp[i].errors[1]
                    \/ /\ ~IsSuccess(resp[i].statusCode)
                       /\ resp[i].error =
                              HttpError(resp[i].statusCode,
                                        Utf8Decode(resp[i].body))
             /\ (resp[i].phase = "response" /\ resp[i].pending = <<>>) =>
                    ENABLED OnEnd(i))
    /\ [][\A i \in 1..Len(resp) : \A j \in 1..Len(resp) :
             (i # j /\ resp'[i] # resp[i]) =>
                 (resp'[j] = resp[j] /\ calls'[j] = calls[j])]_vars

\* Two calls were in flight: the first was cut by a transport error after a
\* part of its body had arrived, the second succeeded with its own body.
C20_Witness ==
    /\ Len(resp) = 2
    /\ resp[1].state = "rejected"
    /\ resp[1].errors # <<>>
    /\ resp[1].received # <<>>
    /\ resp[1].pending # <<>>
    /\ resp[2].state = "fulfilled"
    /\ resp[2].value = Str(<<79, 75>>)
    /\ resp[2].data = <<79, 75>>

-----------------------------------------------------------------------------
(* Reads repeated, and what the wrappers hand to the caller.               *)

\* C21: two calls of the same reading method on one client, to both of
\* which the remote returned the same status and the same body, have equal
\* outcomes: both succeed with equal values or both fail with equal
\* messages.
C21_SameReadSameOutcome ==
    \A i \in 1..Len(calls) : \A j \in 1..Len(calls) :
        (/\ calls[i].op \in Readers
         /\ calls[j].op = calls[i].op
         /\ resp[i].phase = "ended" /\ resp[i].errors = <<>>
         /\ resp[j].phase = "ended" /\ resp[j].errors = <<>>
         /\ resp[i].statusCode = resp[j].statusCode
         /\ resp[i].body = resp[j].body)
        => Returned(i) = Returned(j)

\* The methods documented as returning Promise<void>.
ActionMethods ==
    {"clickATXButton", "powerOn", "powerOff", "forcePowerOff", "reset",
     "setMSDImage", "connectMSD", "disconnectMSD", "removeMSDImage",
     "sendKeys", "sendMouseMove", "sendMouseButton", "sendMouseWheel",
     "setGPIO", "pulseGPIO"}

\* C22: a method documented as returning Promise<void> resolves, when the
\* response has a 2xx status, with no value, whatever the body was; only
\* the four reading methods deliver the decoded response.
C22_ActionsResolveWithNoValue ==
    \A i \in 1..Len(calls) :
        /\ (calls[i].op \in ActionMethods /\ resp[i].state = "fulfilled") =>
               /\ Returned(i).state = "fulfilled"
               /\ Returned(i).value = Undefined
        /\ (calls[i].op \in Readers /\ resp[i].state = "fulfilled") =>
               Returned(i).value = resp[i].value

\* C23: a wrapper fails exactly when the request it issued fails, and then
\* with the error of the request, which is the HTTP error of the response
\* or the error the transport reported; it does not fail when the request
\* succeeded and is pending while the request is.
C23_WrappersPropagateFailure ==
    \A i \in 1..Len(calls) :
        calls[i].op \in Readers \cup ActionMethods =>
            /\ Returned(i).state = resp[i].state
            /\ resp[i].state = "rejected" =>
                   /\ Returned(i).error = resp[i].error
                   /\ \/ /\ resp[i].errors # <<>>
                         /\ Returned(i).error = resp[i].errors[1]
                      \/ /\ resp[i].phase = "ended"
                         /\ Returned(i).error =
                                HttpError(resp[i].statusCode, resp[i].data)
            /\ resp[i].state # "rejected" => Returned(i).error = Undefined

\* sendKeys on the TypeScript client failed with the HTTP error of a 500.
C23_Witness ==
    \E i \in 1..Len(calls) :
        /\ impl = "ts"
        /\ calls[i].op = "sendKeys"
        /\ resp[i].statusCode = 500
        /\ Returned(i).state = "rejected"
        /\ Returned(i).error =
               [name |-> "Error",
                message |-> <<72, 84, 84, 80, 32, 53, 48, 48, 58, 32>>]

-----------------------------------------------------------------------------
(* The client between calls.                                               *)

\* C24: whatever calls were made and however they ended, the client holds
\* the configuration and the Authorization header it was constructed with;
\* no step changes them; and the request of a call is made of the call's
\* method and arguments and of the configuration alone, so that it is the
\* request the same call issues as the first on the client, and two calls
\* with the same method and arguments issue equal requests.
C24_ClientIsStateless ==
    /\ [](Constructed =>
             client = [type |-> "client",
                       config |-> EffectiveConfig(input),
                       authHeader |-> AuthHeader(EffectiveConfig(input))])
    /\ [][Constructed => client' = client]_vars
    /\ [](\A i \in 1..Len(calls) :
             /\ calls[i].options =
                    [hostname |-> client.config.host,
                     port |-> client.config.port,
                     path |-> IF calls[i].op = "getInfo" THEN "/api/info"
                              ELSE "/api/atx/click?button=power&wait=1",
                     method |-> IF calls[i].op = "getInfo" THEN "GET"
                                ELSE "POST",
                     headers |-> [Authorization |-> client.authHeader,
                                  ContentType |-> "application/json"],
                     rejectUnauthorized |-> client.config.rejectUnauthorized]
             /\ calls[i].written =
                    (IF calls[i].op = "getInfo" THEN <<>> ELSE <<"{}">>)
             /\ calls[i].connections = 1
             /\ \A j \in 1..Len(calls) :
                    (calls[j].op = calls[i].op /\ calls[j].args = calls[i].args)
                        => calls[j] = calls[i])

\* powerOn was called twice: the first call had failed with the HTTP error
\* of a 401, the second succeeded with the raw text OK, and both had issued
\* the same request.
C24_Witness ==
    /\ Len(calls) = 2
    /\ calls[1].op = "powerOn"
    /\ calls[2] = calls[1]
    /\ resp[1].phase = "ended"
    /\ resp[1].state = "rejected"
    /\ resp[1].statusCode = 401
    /\ resp[2].state = "fulfilled"
    /\ resp[2].value = Str(<<79, 75>>)
    /\ client.authHeader = "Basic YWRtaW46cHcx"

-----------------------------------------------------------------------------
(* Waiting for the transport.                                              *)

\* C25: the client has no timeout.  A call is pending as long as the
\* transport has delivered neither the end of its response nor an error,
\* and the only steps that settle a pending call are the end of its
\* response and an error reported on its request.
C25_PendingUntilEndOrError ==
    /\ [](\A i \in 1..Len(resp) :
             (resp[i].phase # "ended" /\ resp[i].errors = <<>>) =>
                 resp[i].state = "pending")
    /\ [][\A i \in 1..Len(resp) :
             (resp[i].state = "pending" /\ resp'[i].state # "pending") =>
                 \/ resp[i].phase = "response" /\ resp'[i].phase = "ended"
                 \/ Len(resp'[i].errors) = Len(resp[i].errors) + 1]_vars

\* The whole body of a response has arrived, its end has not: the call is
\* pending.
C25_Witness ==
    \E i \in 1..Len(resp) :
        /\ resp[i].phase = "response"
        /\ resp[i].received # <<>>
        /\ resp[i].pending = <<>>
        /\ resp[i].errors = <<>>
        /\ resp[i].state = "pending"

\* C26: a call whose response was cut after its headers had arrived and
\* before its end, by a close of the connection or by an error, settles in
\* the end, as a failure.
C26_CutResponseFailsCall ==
    \A i \in 1..MaxCalls :
        [](/\ i \in 1..Len(resp)
           /\ \/ resp[i].phase = "aborted"
              \/ resp[i].phase = "response" /\ resp[i].errors # <<>>
           => <>(i \in 1..Len(resp) /\ resp[i].state = "rejected"))

-----------------------------------------------------------------------------
(* The two classes side by side.                                           *)

\* The request of each method for the arguments it is invoked with where
\* every wrapper is observed: method, path and payloads.
EachRequest(op) ==
    CASE op = "getInfo" -> <<"GET", "/api/info", <<>>>>
      [] op = "getATXInfo" -> <<"GET", "/api/atx", <<>>>>
      [] op = "clickATXButton" ->
             <<"POST", "/api/atx/click?button=reset&wait=0", <<"{}">>>>
      [] op = "powerOn" ->
             <<"POST", "/api/atx/click?button=power&wait=1", <<"{}">>>>
      [] op = "powerOff" ->
             <<"POST", "/api/atx/click?button=power&wait=1", <<"{}">>>>
      [] op = "forcePowerOff" ->
             <<"POST", "/api/atx/click?button=power_long&wait=1", <<"{}">>>>
      [] op = "reset" ->
             <<"POST", "/api/atx/click?button=reset&wait=1", <<"{}">>>>
      [] op = "getMSDInfo" -> <<"GET", "/api/msd", <<>>>>
      [] op = "setMSDImage" ->
             <<"POST", "/api/msd/set_params",
               <<"{\"image\":null,\"cdrom\":false}">>>>
      [] op = "connectMSD" ->
             <<"POST", "/api/msd/set_connected", <<"{\"connected\":true}">>>>
      [] op = "disconnectMSD" ->
             <<"POST", "/api/msd/set_connected", <<"{\"connected\":false}">>>>
      [] op = "removeMSDImage" ->
             <<"POST", "/api/msd/remove?image=a.iso", <<"{}">>>>
      [] op = "sendKeys" ->
             <<"POST", "/api/hid/events/send_key", <<"{\"keys\":[\"a\"]}">>>>
      [] op = "sendMouseMove" ->
             <<"POST", "/api/hid/events/send_mouse_move",
               <<"{\"x\":0,\"y\":-5}">>>>
      [] op = "sendMouseButton" ->
             <<"POST", "/api/hid/events/send_mouse_button",
               <<"{\"button\":\"left\",\"state\":true}">>>>
      [] op = "sendMouseWheel" ->
             <<"POST", "/api/hid/events/send_mouse_wheel", <<"{\"delta\":0}">>>>
      [] op = "getGPIO" -> <<"GET", "/api/gpio", <<>>>>
      [] op = "setGPIO" ->
             <<"POST", "/api/gpio/switch",
               <<"{\"channel\":\"c1\",\"state\":false}">>>>
      [] op = "pulseGPIO" ->
             <<"POST", "/api/gpio/pulse",
               <<"{\"channel\":\"c1\",\"delay\":0}">>>>

\* The class that is not the one instantiated.
OtherClass == IF impl = "js" THEN "ts" ELSE "js"

\* C27: the JavaScript and the TypeScript client agree on the wire.  Built
\* from a valid configuration, either holds the effective configuration and
\* the header the constructor computes from it; for every method both
\* define, either issues the same request (method, path with its query,
\* headers, payload); and on the same response either succeeds exactly when
\* the status test of the other class passes, and otherwise fails with the
\* same message, HTTP <status>: <body as received>.
C27_ClassesAgreeOnTheWire ==
    /\ Constructed =>
           /\ client.config =
                  [host |-> input.host,
                   port |-> IF input.secure = Bool(FALSE)
                            THEN Num(DefaultPlainPort)
                            ELSE Num(DefaultSecurePort),
                   secure |-> Bool(input.secure # Bool(FALSE)),
                   username |-> input.username,
                   password |-> input.password,
                   rejectUnauthorized |->
                       Bool(input.rejectUnauthorized = Bool(TRUE))]
           /\ client.authHeader = "Basic YWRtaW46cHcx"
    /\ \A i \in 1..Len(calls) :
           /\ calls[i].options.method = EachRequest(calls[i].op)[1]
           /\ calls[i].options.path = EachRequest(calls[i].op)[2]
           /\ calls[i].written = EachRequest(calls[i].op)[3]
           /\ calls[i].options.headers =
                  [Authorization |-> "Basic YWRtaW46cHcx",
                   ContentType |-> "application/json"]
           /\ calls[i].options.hostname = input.host
           /\ calls[i].options.port = client.config.port
           /\ calls[i].options.rejectUnauthorized =
                  Bool(input.rejectUnauthorized = Bool(TRUE))
           /\ calls[i].transport =
                  (IF input.secure = Bool(FALSE) THEN "http" ELSE "https")
           /\ (resp[i].phase = "ended" /\ resp[i].errors = <<>>) =>
                  /\ (Returned(i).state = "fulfilled") =
                         StatusOk(OtherClass, resp[i].statusCode)
                  /\ (Returned(i).state = "rejected") =
                         ~StatusOk(OtherClass, resp[i].statusCode)
                  /\ Returned(i).state = "rejected" =>
                         Returned(i).error.message =
                             <<72, 84, 84, 80, 32>>
                                 \o DecimalCps(resp[i].statusCode)
                                 \o <<58, 32>> \o resp[i].data
           /\ (resp[i].errors # <<>> /\ resp[i].phase # "ended") =>
                  /\ Returned(i).state = "rejected"
                  /\ Returned(i).error = resp[i].errors[1]

\* removeMSDImage on a TypeScript client for plain HTTP succeeded on a 204,
\* as it does on the JavaScript client.
C27_Witness ==
    \E i \in 1..Len(calls) :
        /\ impl = "ts"
        /\ calls[i].transport = "http"
        /\ calls[i].options.port = Num(DefaultPlainPort)
        /\ calls[i].op = "removeMSDImage"
        /\ calls[i].options.path = "/api/msd/remove?image=a.iso"
        /\ resp[i].phase = "ended"
        /\ resp[i].statusCode = 204
        /\ Returned(i).state = "fulfilled"
        /\ StatusOk("js", resp[i].statusCode)

====
